---- MODULE Spec2Model ----
(***************************************************************************)
(* Model of the m.Stock gateway (src/src/main.py, models.py, security.py,  *)
(* settings.py): the persistent token cache, the admin gate, the slowapi   *)
(* rate limiter in front of the routes, and the route handlers with the    *)
(* broker SDK as a nondeterministic environment.                           *)
(*                                                                         *)
(* Time is counted in abstract ticks.  DayLen ticks make one local         *)
(* calendar day and Window ticks make the limiter's 60-second window.      *)
(* The clock never reads a timestamp of the epoch day: the process runs    *)
(* from day 1 on, so a stored timestamp 0 is never "today".                *)
(***************************************************************************)
EXTENDS Integers, FiniteSets, Sequences, TLC

VARIABLES
    now,          \* wall clock, time.time() / datetime.now()
    TOKENS,       \* main.TOKENS: [access_token, token_set_at]
    token_file,   \* contents of models.TOKEN_FILE (".tokens.json")
    sdk,          \* TRUE iff "from tradingapi_a.mconnect import MConnect" worked
    mconnect,     \* main.mconnect: the broker handle, or None
    started,      \* lifespan() has run; requests are served
    storage,      \* the limiter's counters: (client, route) -> [count, expiry]
    inflight,     \* client -> its request that the limiter has counted and let
                  \* through and whose route has not run yet
    resp,         \* the request just served and its response (observation)
    op,           \* the cache method last called directly: its name, what the
                  \* file system did to it, and when it was called
    otp_sent,     \* a POST /auth/login has succeeded (the broker dispatched an
                  \* OTP) since the process started
    environ,      \* the environment and .env file that Settings() reads
    sessions,     \* what the completed POST /auth/session requests wrote, in order
    ws,           \* m2.py: the websocket client lists, the sockets in their
                  \* handshake and those that are open, the ticker connections
                  \* being started and those that are up, the last push
    job           \* m2.py: the last run of scheduled_refresh

\* The state beside the gateway's request handling.
aside == <<environ, sessions, ws, job>>

vars == <<now, TOKENS, token_file, sdk, mconnect, started, storage, inflight, resp, op,
          otp_sent, aside>>

----------------------------------------------------------------------------
(* Bounds of the model *)

DayLen == 2          \* ticks per calendar day
Window == 1          \* ticks per limiter window ("minute")
MaxCount == 11       \* hits recorded in one bucket before its client pauses
MaxTickers == 2      \* broker ticker connections opened for one stream
MaxSessions == 2     \* /auth/session requests followed through their handler

StartTime == DayLen
MaxTime == 2 * DayLen

Day(t) == t \div DayLen

(* Python values.  None and a wrongly typed JSON value are encoded beside   *)
(* the well-typed ones: strings for access_token, integers for the float    *)
(* token_set_at.                                                            *)
NoneStr == "<None>"
NoneNum == -1
BadNum == -2                     \* a JSON value that is no number, such as "abc"
AccessTokens == {"tokA", "tokB"} \* what the broker hands out
TokenValues == AccessTokens \cup {"", NoneStr}
Times == 0..MaxTime
StampValues == Times \cup {NoneNum, BadNum}

CacheValues == [access_token : TokenValues, token_set_at : StampValues]
EmptyCache == [access_token |-> NoneStr, token_set_at |-> NoneNum]

----------------------------------------------------------------------------
(* models.TokenCache *)

\* Python truthiness of the two fields: "not self.access_token",
\* "not self.token_set_at".
FalsyToken(a) == a = NoneStr \/ a = ""
FalsyStamp(s) == s = NoneNum \/ s = 0

\* datetime.fromtimestamp(x) raises TypeError on a value that is no number.
is_valid_raises(c) ==
    /\ ~FalsyToken(c.access_token)
    /\ ~FalsyStamp(c.token_set_at)
    /\ c.token_set_at = BadNum

is_valid_nodate(c, t) ==
    ~(FalsyToken(c.access_token) \/ FalsyStamp(c.token_set_at))

\* TokenCache.is_valid(), where it returns.
is_valid(c, t) ==
    IF FalsyToken(c.access_token) \/ FalsyStamp(c.token_set_at)
    THEN FALSE
    ELSE c.token_set_at \in Times /\ Day(c.token_set_at) = Day(t)

get_token(c) == c.access_token

----------------------------------------------------------------------------
(* models.PersistentTokenCache and the token file.                         *)
(* The file is absent, holds text json.loads rejects, or holds a JSON       *)
(* object; data.get(k) is None for a missing key, so an object is modelled  *)
(* by the two values .get returns.                                          *)

Absent == [kind |-> "absent", access_token |-> NoneStr, token_set_at |-> NoneNum]
Garbage == [kind |-> "garbage", access_token |-> NoneStr, token_set_at |-> NoneNum]
JsonFile(a, s) == [kind |-> "json", access_token |-> a, token_set_at |-> s]
FileValues == {Absent, Garbage} \cup {JsonFile(a, s) : a \in TokenValues, s \in StampValues}

\* A serialisation that drops the timestamp, against which C10 is tested.
dumps_token_only(c) == JsonFile(c.access_token, NoneNum)

\* json.dumps of the two fields, as save() writes them.
dumps(c) == JsonFile(c.access_token, c.token_set_at)

\* save(): write_text either succeeds, fails before touching the file, or
\* fails after truncating it; the exception is logged, never raised.
save_file(c, f, fs) ==
    CASE fs = "ok" -> dumps(c)
      [] fs = "error" -> f
      [] OTHER -> Garbage

\* clear(): both fields reset; the file unlinked if it exists, a failure
\* to unlink logged.
\* (clear_cache_keeps and clear_file_keeps: a clear() that leaves the fields,
\* or the file, as they are; C12 and C13 are tested against them.)
clear_cache_keeps(c) == c
clear_cache(c) == EmptyCache
clear_file_keeps(f, fs) == f
clear_file(f, fs) == IF f.kind # "absent" /\ fs = "ok" THEN Absent ELSE f

\* load(): the cache and the file it leaves.  fs is what the file system
\* does to load()'s own accesses; the later unlink inside clear() gets its
\* own outcome.  failed: an exception reached load()'s except clause (the
\* read, the parse or is_valid() raised) and was logged; cleared: load()
\* called clear(); raised: load() raised to its caller.
LoadResult(c, f, failed, cleared) ==
    [cache |-> c, file |-> f, failed |-> failed, cleared |-> cleared, raised |-> FALSE]

\* "if TOKEN_FILE.exists():" stands before the try block.  Path.exists()
\* answers False for a file that is not there and raises PermissionError
\* when the directory cannot be searched: load() then raises to its caller,
\* with nothing logged and nothing changed.
Denied == "denied"
LoadRaised(c, f) ==
    [cache |-> c, file |-> f, failed |-> FALSE, cleared |-> FALSE, raised |-> TRUE]

\* Two variants of load() the claims are tested against: one that treats
\* whatever it read as stale, and one that never re-validates.
load_discards(c, f, t, fs, fsDel) ==
    IF fs = Denied THEN LoadRaised(c, f)
    ELSE IF f.kind = "absent" THEN LoadResult(c, f, FALSE, FALSE)
    ELSE IF fs # "ok" \/ f.kind = "garbage"
         THEN LoadResult(c, f, TRUE, FALSE)
    ELSE LoadResult(EmptyCache, clear_file(f, fsDel), FALSE, TRUE)

load_keeps_stale(c, f, t, fs, fsDel) ==
    IF fs = Denied THEN LoadRaised(c, f)
    ELSE IF f.kind = "absent" THEN LoadResult(c, f, FALSE, FALSE)
    ELSE IF fs # "ok" \/ f.kind = "garbage"
         THEN LoadResult(c, f, TRUE, FALSE)
    ELSE LoadResult([access_token |-> f.access_token, token_set_at |-> f.token_set_at],
                    f, FALSE, FALSE)

load(c, f, t, fs, fsDel) ==
    IF fs = Denied THEN LoadRaised(c, f)
    ELSE IF f.kind = "absent" THEN LoadResult(c, f, FALSE, FALSE)
    ELSE IF fs # "ok" \/ f.kind = "garbage"
         THEN LoadResult(c, f, TRUE, FALSE)
    ELSE LET got == [access_token |-> f.access_token, token_set_at |-> f.token_set_at]
         IN  IF is_valid_raises(got)
             THEN LoadResult(got, f, TRUE, FALSE)
             ELSE IF ~is_valid(got, t)
                  THEN LoadResult(clear_cache(got), clear_file(f, fsDel), FALSE, TRUE)
                  ELSE LoadResult(got, f, FALSE, FALSE)

----------------------------------------------------------------------------
(* security.limiter: slowapi's Limiter(key_func=get_remote_address,        *)
(* default_limits=["10/minute"]) run by SlowAPIMiddleware in front of every *)
(* route.  A default limit has no scope of its own, so slowapi counts it    *)
(* under the pair (key_func(request), URL path of the request), the path    *)
(* being the limiter's default key style: one fixed window per client       *)
(* address and path, whatever the method.  The window opens at the first    *)
(* hit and lasts Window ticks; a hit is counted whether or not it is over   *)
(* the limit.                                                               *)

RateLimit == 10
Clients == {"addr1", "addr2"}

Routes == {"auth_login", "auth_session", "place_order", "modify_order",
           "cancel_order", "get_orders", "get_trades", "order_status",
           "get_ltp", "get_ohlc", "get_historical_chart", "get_instruments",
           "loser_gainer", "healthz"}
AuthRoutes == {"auth_login", "auth_session"}
SessionRoutes == Routes \ (AuthRoutes \cup {"healthz"})
AdminRoutes == Routes \ {"healthz"}

\* The URL path each route is mounted on; POST /orders and GET /orders share
\* one.
path(r) ==
    CASE r = "auth_login" -> "/auth/login"
      [] r = "auth_session" -> "/auth/session"
      [] r = "place_order" -> "/orders"
      [] r = "modify_order" -> "/orders/modify"
      [] r = "cancel_order" -> "/orders/cancel"
      [] r = "get_orders" -> "/orders"
      [] r = "get_trades" -> "/trades"
      [] r = "order_status" -> "/orders/status"
      [] r = "get_ltp" -> "/market/ltp"
      [] r = "get_ohlc" -> "/market/ohlc"
      [] r = "get_historical_chart" -> "/market/historical"
      [] r = "get_instruments" -> "/market/instruments"
      [] r = "loser_gainer" -> "/market/loser_gainer"
      [] OTHER -> "/healthz"
Paths == {path(r) : r \in Routes}

Buckets == Clients \X Paths
NoHits == [count |-> 0, expiry |-> 0]
EmptyStorage == [k \in Buckets |-> NoHits]

\* The bucket a request is counted under.
BucketOf(c, r) == <<c, path(r)>>

Live(st, k, t) == st[k].count > 0 /\ st[k].expiry > t

\* MemoryStorage.incr: a fresh or expired key restarts at 1 with a new expiry.
hit(st, k, t) ==
    IF Live(st, k, t)
    THEN [st EXCEPT ![k].count = @ + 1]
    ELSE [st EXCEPT ![k] = [count |-> 1, expiry |-> t + Window]]

\* FixedWindowRateLimiter.hit: the request passes iff the count after it is
\* within the limit.
within_limit_off(st, k) == TRUE
within_limit(st, k) == st[k].count <= RateLimit

\* The storage drops a key once it has expired.
expire(st, t) == [k \in Buckets |-> IF Live(st, k, t) THEN st[k] ELSE NoHits]

----------------------------------------------------------------------------
(* The broker SDK (tradingapi_a.mconnect.MConnect) is the environment: a   *)
(* call returns a value or raises.  A handler is modelled by the set of    *)
(* outcomes it can have over what the broker may do when it is called.     *)

NoHandle == [live |-> FALSE, access_token |-> NoneStr]
Handle(a) == [live |-> TRUE, access_token |-> a]

Ret(v) == [kind |-> "ret", val |-> v]
Raise(e) == [kind |-> "raise", val |-> e]
Exceptions == {"exc1", "exc2"}
AttrError == "'NoneType' object has no attribute"

\* What a data or order call can do: a success payload, a payload that
\* reports a failure, or an exception.
CallOutcomes == {Ret("success"), Ret("failure")} \cup {Raise(e) : e \in Exceptions}
\* login(): the status of the answer, or no answer at all.
LoginOutcomes == {Ret("success"), Ret("failure"), Ret(NoneStr)}
                     \cup {Raise(e) : e \in Exceptions}
\* generate_session(): the access_token found in the answer.
SessionOutcomes == {Ret(a) : a \in TokenValues} \cup {Raise(e) : e \in Exceptions}
\* What the file system does to one operation: it works, it fails before
\* touching the file, or (a write) it fails after truncating the file.
FsOutcomes == {"ok", "error", "partial"}
\* What the file system does to load(): those, or exists() is refused.
LoadOutcomes == FsOutcomes \cup {Denied}

(* Responses.  A body is the broker's answer handed through, a fixed       *)
(* message, or an error detail with the text interpolated into it.         *)
Passed(v) == [kind |-> "broker", text |-> v, arg |-> ""]
Message(m, a) == [kind |-> "message", text |-> m, arg |-> a]
Detail(m, a) == [kind |-> "detail", text |-> m, arg |-> a]

\* What serving a request leaves: the cache, the file, the answer, the
\* broker methods that were invoked, what the broker returned (NoneStr when
\* it was not called or raised) and what became of the token-file operation
\* ("none" when there was none).
OutOf(c, f, status, body, calls, ret, fs) ==
    [cache |-> c, file |-> f, status |-> status, body |-> body, calls |-> calls,
     ret |-> ret, fs |-> fs]
Out(c, f, status, body, calls) == OutOf(c, f, status, body, calls, NoneStr, "none")

SessionExpiredLong == "Session expired. Please log in again."
SessionExpiredShort == "Session expired"

\* "if not TOKENS.is_valid(): raise HTTPException(401, ...)", ahead of the
\* try block; a TypeError out of is_valid() is an unhandled error (500).
session_gate_open(c, f, t, text, inner) == inner
session_gate(c, f, t, text, inner) ==
    IF is_valid_raises(c)
    THEN {Out(c, f, 500, Detail("Internal Server Error", ""), {})}
    ELSE IF ~is_valid(c, t)
         THEN {Out(c, f, 401, Detail(text, ""), {})}
         ELSE inner

\* "return resp"
passed_wrapped(v) == Message("ok", v)
passed(v) == Passed(v)

\* try: resp = mconnect.<method>(...); return resp
\* except Exception as e: raise HTTPException(400, detail)
\* With mconnect None the attribute lookup raises and no call is made.
broker_call(c, f, mc, method, errText, errArg) ==
    IF ~mc.live
    THEN {Out(c, f, 400, Detail(errText, IF errArg THEN AttrError ELSE ""), {})}
    ELSE {IF bro.kind = "raise"
          THEN Out(c, f, 400, Detail(errText, IF errArg THEN bro.val ELSE ""), {method})
          ELSE OutOf(c, f, 200, passed(bro.val), {method}, bro.val, "none")
            : bro \in CallOutcomes}

place_order(c, f, t, mc) ==
    session_gate(c, f, t, SessionExpiredLong,
        broker_call(c, f, mc, "place_order", "Order failed", TRUE))

modify_order(c, f, t, mc) ==
    session_gate(c, f, t, SessionExpiredLong,
        broker_call(c, f, mc, "modify_order", "Order modification failed", FALSE))

cancel_order(c, f, t, mc) ==
    session_gate(c, f, t, SessionExpiredLong,
        broker_call(c, f, mc, "cancel_all", "Order cancellation failed", FALSE))

get_orders(c, f, t, mc) ==
    session_gate(c, f, t, SessionExpiredLong,
        broker_call(c, f, mc, "get_order_book", "Could not fetch orderbook", FALSE))

get_trades(c, f, t, mc) ==
    session_gate(c, f, t, SessionExpiredLong,
        broker_call(c, f, mc, "get_trade_history", "Could not fetch tradebook", FALSE))

order_status(c, f, t, mc) ==
    session_gate(c, f, t, SessionExpiredLong,
        broker_call(c, f, mc, "get_order_details", "Could not fetch order status", FALSE))

get_ltp(c, f, t, mc) ==
    session_gate(c, f, t, SessionExpiredLong,
        broker_call(c, f, mc, "get_ltp", "Could not fetch LTP", FALSE))

\* get_ohlc: the first "except Exception" clears the cache and answers 401;
\* the second except clause is never reached.
get_ohlc(c, f, t, mc) ==
    session_gate(c, f, t, SessionExpiredShort,
        IF ~mc.live
        THEN {OutOf(clear_cache(c), clear_file(f, fs), 401,
                    Detail(SessionExpiredLong, ""), {}, NoneStr, fs) : fs \in FsOutcomes}
        ELSE {OutOf(c, f, 200, passed(bro.val), {"get_ohlc"}, bro.val, "none")
                : bro \in {b \in CallOutcomes : b.kind = "ret"}}
             \cup {OutOf(clear_cache(c), clear_file(f, fs), 401,
                         Detail(SessionExpiredLong, ""), {"get_ohlc"}, NoneStr, fs)
                     : fs \in FsOutcomes})

get_historical_chart(c, f, t, mc) ==
    session_gate(c, f, t, SessionExpiredShort,
        broker_call(c, f, mc, "get_historical_chart", "Could not fetch historical chart",
                    FALSE))

\* get_instruments answers with its own message and a row count after
\* writing the CSV snapshot; a failed write is one more exception.
get_instruments(c, f, t, mc) ==
    session_gate(c, f, t, SessionExpiredShort,
        IF ~mc.live
        THEN {Out(c, f, 400, Detail("Could not fetch instruments", ""), {})}
        ELSE {IF bro.kind = "raise" \/ fs # "ok"
              THEN Out(c, f, 400, Detail("Could not fetch instruments", ""),
                       {"get_instruments"})
              ELSE OutOf(c, f, 200, Message("Instrument file saved", "rows"),
                         {"get_instruments"}, bro.val, "none")
                : bro \in CallOutcomes, fs \in FsOutcomes})

loser_gainer(c, f, t, mc) ==
    session_gate(c, f, t, SessionExpiredShort,
        broker_call(c, f, mc, "loser_gainer", "Could not fetch losers/gainers", FALSE))

\* The open orders a call of the handle cancels when the caller named order
\* x: cancel_all() takes no order id and cancels every open order.
OrderIds == {"order1", "order2"}
cancelled_by(calls, x) ==
    IF "cancel_all" \in calls THEN OrderIds
    ELSE IF "cancel_order" \in calls THEN {x}
    ELSE {}

\* healthz: {"ok": True, "ts": ...}
healthz_needs_session(c, f, t) ==
    IF is_valid(c, t) THEN {Out(c, f, 200, Message("ok", "ts"), {})}
    ELSE {Out(c, f, 401, Detail(SessionExpiredShort, ""), {})}
healthz(c, f, t) == {Out(c, f, 200, Message("ok", "ts"), {})}

----------------------------------------------------------------------------
(* The auth routes.  Their "except Exception" also catches the             *)
(* HTTPException raised inside the try block, so every failure leaves as   *)
(* a 500 whose detail carries the text of what was caught.                 *)

\* A login that keeps what the broker answered in the token cache, against
\* which C28 is tested.
auth_login_stores(c, f, mc) ==
    IF ~mc.live
    THEN {Out(c, f, 500, Detail("Auth error", AttrError), {})}
    ELSE {OutOf([c EXCEPT !.access_token = "tokA"], f, 200, Message("OTP sent", ""),
                {"login"}, "success", "none")}

auth_login(c, f, mc) ==
    IF ~mc.live
    THEN {Out(c, f, 500, Detail("Auth error", AttrError), {})}
    ELSE {IF bro.kind = "raise"
          THEN Out(c, f, 500, Detail("Auth error", bro.val), {"login"})
          ELSE IF bro.val # "success"
               THEN Out(c, f, 500, Detail("Auth error", "401: Login failed"), {"login"})
               ELSE OutOf(c, f, 200, Message("OTP sent", ""), {"login"}, bro.val, "none")
            : bro \in LoginOutcomes}

\* TOKENS.access_token = access_token; TOKENS.token_set_at = time.time()
store_session_no_stamp(c, a, t) == [c EXCEPT !.access_token = a]
\* (store_session_keeps_stamp: the timestamp written only when there is
\* none yet; C29 is tested against it.)
store_session_keeps_stamp(c, a, t) ==
    [access_token |-> a,
     token_set_at |-> IF c.token_set_at = NoneNum THEN t ELSE c.token_set_at]
store_session(c, a, t) == [access_token |-> a, token_set_at |-> t]

auth_session(c, f, t, mc) ==
    IF ~mc.live
    THEN {Out(c, f, 500, Detail("Session error", AttrError), {})}
    ELSE {IF gen.kind = "raise"
          THEN Out(c, f, 500, Detail("Session error", gen.val), {"generate_session"})
          ELSE Out(c, f, 500, Detail("Session error", "500: Failed to fetch access token"),
                   {"generate_session"})
            : gen \in {g \in SessionOutcomes : g.kind = "raise" \/ FalsyToken(g.val)}}
         \cup
         {OutOf(store_session(c, gen.val, t),
                save_file(store_session(c, gen.val, t), f, fs), 200,
                Message("Session established", gen.val), {"generate_session"},
                gen.val, fs)
            : gen \in {g \in SessionOutcomes : g.kind = "ret" /\ ~FalsyToken(g.val)},
              fs \in FsOutcomes}

----------------------------------------------------------------------------
(* The admin gate and FastAPI's request validation.                        *)

(* settings.Settings: M_API_KEY and M_API_SECRET have no default, so        *)
(* Settings() raises at import when one is missing and the process does    *)
(* not start; M_USERNAME and M_PASSWORD default to None; APP_ADMIN_TOKEN   *)
(* falls back to the literal "change-me".                                  *)
AdminToken == "admin-token"          \* the token the operator configures
DefaultAdminToken == "change-me"
FullEnv == [M_API_KEY |-> "key", M_API_SECRET |-> "secret", M_USERNAME |-> "user",
            M_PASSWORD |-> "password", APP_ADMIN_TOKEN |-> AdminToken]
\* What the operator may have configured: each entry there (NoneStr: unset).
Environs == [M_API_KEY : {"key", NoneStr}, M_API_SECRET : {"secret", NoneStr},
             M_USERNAME : {"user", NoneStr}, M_PASSWORD : {"password", NoneStr},
             APP_ADMIN_TOKEN : {AdminToken, NoneStr}]

Settings(env) ==
    IF env.M_API_KEY = NoneStr \/ env.M_API_SECRET = NoneStr
    THEN [ok |-> FALSE, APP_ADMIN_TOKEN |-> NoneStr]
    ELSE [ok |-> TRUE,
          APP_ADMIN_TOKEN |-> IF env.APP_ADMIN_TOKEN = NoneStr THEN DefaultAdminToken
                              ELSE env.APP_ADMIN_TOKEN]
\* settings = Settings(), built once when the module is imported.
settings == Settings(environ)

\* X-Admin-Token as sent: the operator's token, the well-known default (a
\* wrong guess wherever the operator configured a token), or NoneStr: no
\* header.
Headers == {AdminToken, DefaultAdminToken, NoneStr}
Bodies == {"valid", "malformed"}     \* the JSON body or query against its schema
NotJson == "not_json"                \* a body that json cannot parse
\* An order body may also fit its schema (OrderRequest and ModifyOrderRequest
\* declare transaction_type, order_type and validity as str) while naming a
\* side, order type or validity the broker does not know.
OrderBodies == Bodies \cup {"unlisted"}

\* Routes whose handler declares a body model or required query parameters.
InputRoutes == Routes \ {"auth_login", "get_orders", "get_instruments", "healthz"}
\* Those with a body model: get_trades takes its dates from the query.
JsonRoutes == InputRoutes \ {"get_trades"}

\* require_admin as a dependency with a required header: FastAPI answers a
\* request without the header 422 and never calls the function; the function
\* raises 401 on a value that differs.  0: the request passes.
require_admin_any(h) == 0
require_admin(h) ==
    IF h = NoneStr THEN 422
    ELSE IF h # settings.APP_ADMIN_TOKEN THEN 401
    ELSE 0

\* FastAPI reads and parses the JSON body before it solves the
\* dependencies: a body that is no JSON is answered 422 whatever the header.
\* Then the dependency: with the header missing require_admin is not
\* called and the error is reported together with those of the body; a
\* wrong value raises 401 at once.  The body's own errors are reported when
\* the dependency has passed; then the handler runs.
gate(r, h, b, c, f, inner) ==
    IF r = "healthz" THEN inner
    ELSE IF r \in JsonRoutes /\ b = NotJson
         THEN {Out(c, f, 422, Detail("JSON decode error", "body"), {})}
    ELSE IF require_admin(h) = 422
         THEN {Out(c, f, 422,
                   Detail("Field required",
                          IF r \in InputRoutes /\ b = "malformed"
                          THEN "X-Admin-Token, body" ELSE "X-Admin-Token"), {})}
    ELSE IF require_admin(h) = 401
         THEN {Out(c, f, 401, Detail("Invalid admin token", ""), {})}
    ELSE IF r \in InputRoutes /\ b = "malformed"
         THEN {Out(c, f, 422, Detail("Field required", "body"), {})}
    ELSE inner
----------------------------------------------------------------------------
(* State *)

NoResp == [route |-> "none", client |-> "none", header |-> NoneStr, sent |-> "none",
           status |-> 0, body |-> Message("", ""), calls |-> {}, ret |-> NoneStr,
           fs |-> "none"]
NoPrev == [name |-> "none", fs |-> "none"]
NoOp == [name |-> "none", fs |-> "none", del |-> "none", failed |-> FALSE, at |-> 0,
         prev |-> NoPrev]
\* The record of a call: prev is the call before it.
Called(name, fs, del, failed, t, before) ==
    [name |-> name, fs |-> fs, del |-> del, failed |-> failed, at |-> t,
     prev |-> [name |-> before.name, fs |-> before.fs]]

\* A request as the route will see it: the route, the X-Admin-Token header
\* and the body or query.
Request(r, h, b) == [route |-> r, header |-> h, sent |-> b]
NoRequest == Request("none", NoneStr, "none")
NoneInFlight == [c \in Clients |-> NoRequest]

\* No /auth/session request has completed.
NoSessions == [done |-> <<>>]

\* m2.py at import: both client lists empty, no socket open, no ticker
\* connected, nothing pushed; the job has not run.
Streams == {"ticks", "orders"}
NoPush == [stream |-> "none", clients |-> <<>>, got |-> {}, raised |-> FALSE]
NoStreams == [clients |-> [s \in Streams |-> <<>>], accepting |-> [s \in Streams |-> {}],
              open |-> [s \in Streams |-> {}], starting |-> [s \in Streams |-> 0],
              tickers |-> [s \in Streams |-> 0], push |-> NoPush]
NoJob == [ran |-> FALSE, failed |-> FALSE, logged |-> FALSE, escaped |-> FALSE]

\* What a previous run of the process may have left in the token file.
InitFiles == {Absent, Garbage, JsonFile("tokA", StartTime),
              JsonFile("tokA", StartTime - 1)}

Init ==
    /\ now = StartTime
    /\ TOKENS = EmptyCache
    /\ token_file \in InitFiles
    /\ sdk \in BOOLEAN
    /\ mconnect = NoHandle
    /\ started = FALSE
    /\ storage = EmptyStorage
    /\ inflight = NoneInFlight
    /\ resp = NoResp
    /\ op = NoOp
    /\ otp_sent = FALSE
    /\ environ = FullEnv
    /\ sessions = NoSessions
    /\ ws = NoStreams
    /\ job = NoJob

\* lifespan(): the handle is created when the SDK is there and its
\* constructor does not raise; a valid cache hands its token to the handle.
Lifespan ==
    /\ ~started
    /\ settings.ok
    /\ started' = TRUE
    /\ \E ctor \in {"ok", "raise"} :
          mconnect' = IF sdk /\ ctor = "ok"
                      THEN Handle(IF ~is_valid_raises(TOKENS) /\ is_valid(TOKENS, now)
                                  THEN get_token(TOKENS) ELSE NoneStr)
                      ELSE NoHandle
    /\ UNCHANGED <<now, TOKENS, token_file, sdk, storage, inflight, resp, op, otp_sent,
                   aside>>

\* The clock advances; expired limiter keys are dropped.
Tick ==
    /\ now < MaxTime
    /\ now' = now + 1
    /\ storage' = expire(storage, now + 1)
    /\ resp' = NoResp
    /\ UNCHANGED <<TOKENS, token_file, sdk, mconnect, started, inflight, op, otp_sent,
                   aside>>

----------------------------------------------------------------------------
(* One request.  The handlers are coroutines on one event loop, and a       *)
(* request gives the loop back wherever it awaits: other requests run and  *)
(* the clock moves there.  SlowAPIMiddleware counts the request and, over  *)
(* the limit, answers 429 itself; otherwise it awaits call_next, FastAPI   *)
(* awaits the body and awaits require_admin (a plain def) in the thread    *)
(* pool.  None of these reads or writes the token cache, the file, the     *)
(* handle or the limiter, so they are one wait: the request is in flight.  *)
(* Once require_admin has returned, its verdict, the validation of the     *)
(* body and the handler, which has no await, run without giving the loop   *)
(* back: that is the route's step.  (ThrottlingMiddleware only adds a      *)
(* timing header and a log line.)  A client sends its next request when    *)
(* the one before has been answered.                                       *)

Answer(c, r, h, b, out) ==
    [route |-> r, client |-> c, header |-> h, sent |-> b, status |-> out.status,
     body |-> out.body, calls |-> out.calls, ret |-> out.ret, fs |-> out.fs]

\* The bodies a route can be sent: see InputRoutes and OrderBodies.
BodiesOf(r) ==
    (IF r \in {"place_order", "modify_order"} THEN OrderBodies
     ELSE IF r \in InputRoutes THEN Bodies
     ELSE {"valid"})
        \cup (IF r \in JsonRoutes THEN {NotJson} ELSE {})

\* The requests a client may send to the routes R.
Requests(R) == {q \in [route : R, header : Headers, sent : OrderBodies \cup {NotJson}] :
                    q.sent \in BodiesOf(q.route)}

\* The requests to the routes R that carry the admin token and a valid body.
Granted(R) == {q \in Requests(R) : q.header = AdminToken /\ q.sent = "valid"}

\* The limiter's step: the hit is counted; the request goes on to its route,
\* or is answered 429 and the route is not entered.
SlowAPIMiddleware(c, q) ==
    /\ started
    /\ inflight[c] = NoRequest
    /\ LET k == BucketOf(c, q.route)
           st == hit(storage, k, now)
       IN  /\ storage' = st
           /\ IF within_limit(st, k)
              THEN /\ inflight' = [inflight EXCEPT ![c] = q]
                   /\ resp' = NoResp
              ELSE /\ inflight' = inflight
                   /\ resp' = Answer(c, q.route, q.header, q.sent,
                                     Out(TOKENS, token_file, 429,
                                         Detail("Rate limit exceeded", "10 per 1 minute"),
                                         {}))
    /\ UNCHANGED <<now, TOKENS, token_file, sdk, mconnect, started, op, otp_sent, aside>>

\* The route's step for the request of client c that is in flight: the gate
\* and the handler, with the cache and the clock as they are now.
Route(c, r, outs) ==
    /\ inflight[c].route = r
    /\ \E out \in outs :
          /\ TOKENS' = out.cache
          /\ token_file' = out.file
          /\ resp' = Answer(c, r, inflight[c].header, inflight[c].sent, out)
          /\ otp_sent' = (otp_sent \/ (r = "auth_login" /\ out.status = 200))
    /\ inflight' = [inflight EXCEPT ![c] = NoRequest]
    /\ op' = NoOp
    /\ UNCHANGED <<now, sdk, mconnect, started, storage, environ, ws, job>>

Serve(c, r, outs) == Route(c, r, outs) /\ UNCHANGED sessions

AuthLogin(c) ==
    Serve(c, "auth_login",
          gate("auth_login", inflight[c].header, inflight[c].sent, TOKENS, token_file,
               auth_login(TOKENS, token_file, mconnect)))

AuthSession(c) ==
    Serve(c, "auth_session",
          gate("auth_session", inflight[c].header, inflight[c].sent, TOKENS, token_file,
               auth_session(TOKENS, token_file, now, mconnect)))

PlaceOrder(c) ==
    Serve(c, "place_order",
          gate("place_order", inflight[c].header, inflight[c].sent, TOKENS, token_file,
               place_order(TOKENS, token_file, now, mconnect)))

ModifyOrder(c) ==
    Serve(c, "modify_order",
          gate("modify_order", inflight[c].header, inflight[c].sent, TOKENS, token_file,
               modify_order(TOKENS, token_file, now, mconnect)))

CancelOrder(c) ==
    Serve(c, "cancel_order",
          gate("cancel_order", inflight[c].header, inflight[c].sent, TOKENS, token_file,
               cancel_order(TOKENS, token_file, now, mconnect)))

GetOrders(c) ==
    Serve(c, "get_orders",
          gate("get_orders", inflight[c].header, inflight[c].sent, TOKENS, token_file,
               get_orders(TOKENS, token_file, now, mconnect)))

GetTrades(c) ==
    Serve(c, "get_trades",
          gate("get_trades", inflight[c].header, inflight[c].sent, TOKENS, token_file,
               get_trades(TOKENS, token_file, now, mconnect)))

OrderStatus(c) ==
    Serve(c, "order_status",
          gate("order_status", inflight[c].header, inflight[c].sent, TOKENS, token_file,
               order_status(TOKENS, token_file, now, mconnect)))

GetLtp(c) ==
    Serve(c, "get_ltp",
          gate("get_ltp", inflight[c].header, inflight[c].sent, TOKENS, token_file,
               get_ltp(TOKENS, token_file, now, mconnect)))

GetOhlc(c) ==
    Serve(c, "get_ohlc",
          gate("get_ohlc", inflight[c].header, inflight[c].sent, TOKENS, token_file,
               get_ohlc(TOKENS, token_file, now, mconnect)))

GetHistoricalChart(c) ==
    Serve(c, "get_historical_chart",
          gate("get_historical_chart", inflight[c].header, inflight[c].sent, TOKENS, token_file,
               get_historical_chart(TOKENS, token_file, now, mconnect)))

GetInstruments(c) ==
    Serve(c, "get_instruments",
          gate("get_instruments", inflight[c].header, inflight[c].sent, TOKENS, token_file,
               get_instruments(TOKENS, token_file, now, mconnect)))

LoserGainer(c) ==
    Serve(c, "loser_gainer",
          gate("loser_gainer", inflight[c].header, inflight[c].sent, TOKENS, token_file,
               loser_gainer(TOKENS, token_file, now, mconnect)))

Healthz(c) ==
    Serve(c, "healthz",
          gate("healthz", inflight[c].header, inflight[c].sent, TOKENS, token_file,
               healthz(TOKENS, token_file, now)))

----------------------------------------------------------------------------
(* The gateway: every route, each client working on one route per window.  *)

\* No request is in flight.
Quiet == \A c \in Clients : inflight[c] = NoRequest

\* The routes a client sends bursts of requests to, two of them on one path;
\* it asks the others once in a window.
BurstRoutes == {"place_order", "get_orders", "healthz"}

\* The clients' load: requests come one after the other's answer, no bucket
\* other than the one being hit is live, and a client stops once MaxCount
\* hits are recorded in its bucket.
OneRoute(c, r) ==
    /\ Quiet
    /\ \A k \in Buckets : Live(storage, k, now) => k = BucketOf(c, r)
    /\ storage[BucketOf(c, r)].count < MaxCount
    /\ r \notin BurstRoutes => ~Live(storage, BucketOf(c, r), now)

Next ==
    \/ Lifespan
    \/ Tick
    \/ \E c \in Clients, q \in Requests(Routes) :
          OneRoute(c, q.route) /\ SlowAPIMiddleware(c, q)
    \/ \E c \in Clients : AuthLogin(c)
    \/ \E c \in Clients : AuthSession(c)
    \/ \E c \in Clients : PlaceOrder(c)
    \/ \E c \in Clients : ModifyOrder(c)
    \/ \E c \in Clients : CancelOrder(c)
    \/ \E c \in Clients : GetOrders(c)
    \/ \E c \in Clients : GetTrades(c)
    \/ \E c \in Clients : OrderStatus(c)
    \/ \E c \in Clients : GetLtp(c)
    \/ \E c \in Clients : GetOhlc(c)
    \/ \E c \in Clients : GetHistoricalChart(c)
    \/ \E c \in Clients : GetInstruments(c)
    \/ \E c \in Clients : LoserGainer(c)
    \/ \E c \in Clients : Healthz(c)

Spec == Init /\ [][Next]_vars

----------------------------------------------------------------------------
(* The limiter under load: two clients on the health and order routes,     *)
(* their requests carrying the admin token and in flight together, with    *)
(* the bucket being hit and one other bucket live at once.                 *)

Burst(c, r) ==
    /\ Cardinality({k \in Buckets : Live(storage, k, now) /\ k # BucketOf(c, r)}) <= 1
    /\ storage[BucketOf(c, r)].count < MaxCount

InitRate ==
    /\ Init
    /\ sdk = TRUE
    /\ token_file = Absent

NextRate ==
    \/ Lifespan
    \/ Tick
    \/ \E c \in Clients, q \in Granted({"place_order", "get_orders", "healthz"}) :
          Burst(c, q.route) /\ SlowAPIMiddleware(c, q)
    \/ \E c \in Clients : PlaceOrder(c)
    \/ \E c \in Clients : GetOrders(c)
    \/ \E c \in Clients : Healthz(c)

SpecRate == InitRate /\ [][NextRate]_vars

----------------------------------------------------------------------------
(* The token cache on its own: load(), save() and clear() called on any    *)
(* cache and any file.                                                     *)

InitCache ==
    /\ now = StartTime
    /\ TOKENS \in CacheValues
    /\ token_file \in FileValues
    /\ sdk = TRUE
    /\ mconnect = NoHandle
    /\ started = FALSE
    /\ storage = EmptyStorage
    /\ inflight = NoneInFlight
    /\ resp = NoResp
    /\ op = NoOp
    /\ otp_sent = FALSE
    /\ environ = FullEnv
    /\ sessions = NoSessions
    /\ ws = NoStreams
    /\ job = NoJob

CacheLoad ==
    \E fs \in LoadOutcomes, fsDel \in FsOutcomes :
        LET got == load(TOKENS, token_file, now, fs, fsDel)
        IN  /\ TOKENS' = got.cache
            /\ token_file' = got.file
            /\ op' = Called("load",
                             IF got.raised THEN Denied
                             ELSE IF token_file.kind = "absent" THEN "none" ELSE fs,
                             IF got.cleared THEN fsDel ELSE "none", got.failed, now, op)
            /\ resp' = NoResp
            /\ UNCHANGED <<now, sdk, mconnect, started, storage, inflight, otp_sent, aside>>

CacheSave ==
    \E fs \in FsOutcomes :
        /\ token_file' = save_file(TOKENS, token_file, fs)
        /\ op' = Called("save", fs, "none", FALSE, now, op)
        /\ resp' = NoResp
        /\ UNCHANGED <<now, TOKENS, sdk, mconnect, started, storage, inflight, otp_sent,
                       aside>>

CacheClear ==
    \E fs \in FsOutcomes :
        /\ TOKENS' = clear_cache(TOKENS)
        /\ token_file' = clear_file(token_file, fs)
        /\ op' = Called("clear", IF token_file.kind = "absent" THEN "none" ELSE fs,
                         "none", FALSE, now, op)
        /\ resp' = NoResp
        /\ UNCHANGED <<now, sdk, mconnect, started, storage, inflight, otp_sent, aside>>

NextCache == CacheLoad \/ CacheSave \/ CacheClear \/ Tick

SpecCache == InitCache /\ [][NextCache]_vars

----------------------------------------------------------------------------
(* The token cache of the running gateway: it starts empty over whatever   *)
(* file an earlier run left, and is changed by the session exchange, by    *)
(* the handlers, and by load(), save() and clear() called on it.  Each     *)
(* request carries the admin token and a valid body, and arrives while no  *)
(* limiter window is open and no other request is in flight; the cache     *)
(* methods and the clock may act before its route runs.                    *)

Idle == \A k \in Buckets : ~Live(storage, k, now)

\* Files an earlier run, or someone editing the file, may have left: those
\* of InitFiles, and objects with a field missing or wrongly typed.
LeftFiles == InitFiles \cup {JsonFile("tokA", NoneNum), JsonFile(NoneStr, StartTime),
                             JsonFile("tokA", BadNum)}

InitSession ==
    /\ now = StartTime
    /\ TOKENS = EmptyCache
    /\ token_file \in LeftFiles
    /\ sdk = TRUE
    /\ mconnect = NoHandle
    /\ started = FALSE
    /\ storage = EmptyStorage
    /\ inflight = NoneInFlight
    /\ resp = NoResp
    /\ op = NoOp
    /\ otp_sent = FALSE
    /\ environ = FullEnv
    /\ sessions = NoSessions
    /\ ws = NoStreams
    /\ job = NoJob

NextSession ==
    \/ Lifespan
    \/ Tick
    \/ CacheLoad
    \/ CacheSave
    \/ CacheClear
    \/ \E c \in Clients, q \in Granted({"auth_session", "place_order", "get_ohlc"}) :
          Idle /\ Quiet /\ SlowAPIMiddleware(c, q)
    \/ \E c \in Clients : AuthSession(c)
    \/ \E c \in Clients : PlaceOrder(c)
    \/ \E c \in Clients : GetOhlc(c)

SpecSession == InitSession /\ [][NextSession]_vars

----------------------------------------------------------------------------
(* Concurrent session exchanges: POST /auth/session requests that carry    *)
(* the admin token and a valid body, several of them in flight at once.    *)
(* auth_session has no await (generate_session and save() are blocking     *)
(* calls), so once the route's step starts it runs to its answer.          *)

InFlight == {c \in Clients : inflight[c] # NoRequest}

SessionArrive(c) ==
    /\ Len(sessions.done) + Cardinality(InFlight) < MaxSessions
    /\ SlowAPIMiddleware(c, Request("auth_session", AdminToken, "valid"))

\* What a completed exchange leaves in sessions.done: its answer, the token
\* the broker gave, when the handler ran, what became of the write, and
\* whether another exchange was in flight meanwhile.
Written(c, ans, t, others) ==
    [client |-> c, status |-> ans.status, token |-> ans.ret, at |-> t, fs |-> ans.fs,
     overlap |-> others # {}]

SessionRun(c) ==
    /\ Route(c, "auth_session",
             gate("auth_session", inflight[c].header, inflight[c].sent, TOKENS, token_file,
                  auth_session(TOKENS, token_file, now, mconnect)))
    /\ sessions' = [done |-> Append(sessions.done,
                                    Written(c, resp', now, InFlight \ {c}))]

InitConc ==
    /\ Init
    /\ sdk = TRUE
    /\ token_file = Absent

NextConc ==
    \/ Lifespan
    \/ Tick
    \/ \E c \in Clients : SessionArrive(c)
    \/ \E c \in Clients : SessionRun(c)

SpecConc == InitConc /\ [][NextConc]_vars

----------------------------------------------------------------------------
(* m2.py: the websocket endpoints and the scheduled refresh.               *)

\* The gateway's own state, which nothing in this section touches.
gateway == <<now, TOKENS, token_file, sdk, mconnect, started, storage, inflight, resp, op,
             otp_sent>>

Sockets == {"ws1", "ws2"}

Registered(list) == {list[i] : i \in 1..Len(list)}

\* list.remove(x): the first occurrence of x leaves the list.
remove(list, x) ==
    LET i == CHOOSE k \in 1..Len(list) :
                 list[k] = x /\ \A j \in 1..(k - 1) : list[j] # x
    IN  SubSeq(list, 1, i - 1) \o SubSeq(list, i + 1, Len(list))

\* start_ticker: without the SDK it prints and returns; with it, it opens
\* one more ticker connection to the broker (MTicker(...), m.connect()),
\* which nothing ever closes.
start_ticker(tickers, installed) == IF installed THEN tickers + 1 ELSE tickers

\* start_ticker runs in the default executor (run_in_executor), and the
\* ticker calls on_message from there: a thread with no running event loop.
TickerThreadLoop == FALSE

\* on_message: for each client of the list, asyncio.create_task(
\* client.send_text(message)).  create_task needs the running loop of the
\* calling thread and raises RuntimeError without one, at the first client.
on_message(ws_list, running_loop) ==
    IF ws_list = <<>> THEN [got |-> {}, raised |-> FALSE]
    ELSE IF running_loop THEN [got |-> Registered(ws_list), raised |-> FALSE]
    ELSE [got |-> {}, raised |-> TRUE]

\* ws_ticks / ws_orders, entered: the endpoint awaits websocket.accept().
WsAccept(s, x) ==
    /\ x \notin ws.accepting[s] \cup ws.open[s] \cup Registered(ws.clients[s])
    /\ ws' = [ws EXCEPT !.accepting[s] = @ \cup {x}]
    /\ UNCHANGED <<gateway, environ, sessions, job>>

\* accept() has returned: the client is appended and, when the list has
\* just become one long, start_ticker is handed to the default executor
\* (run_in_executor, not awaited); the endpoint then waits in
\* receive_text().  The ticker is not up yet.
WsConnect(s, x) ==
    /\ x \in ws.accepting[s]
    /\ LET list == Append(ws.clients[s], x)
           starts == Len(list) = 1
       IN  /\ starts => ws.starting[s] + ws.tickers[s] < MaxTickers
           /\ ws' = [ws EXCEPT !.clients[s] = list,
                               !.accepting[s] = @ \ {x},
                               !.open[s] = @ \cup {x},
                               !.starting[s] = IF starts THEN @ + 1 ELSE @]
    /\ UNCHANGED <<gateway, environ, sessions, job>>

\* The executor thread runs start_ticker, whatever the list has become.
StartTicker(s) ==
    /\ ws.starting[s] > 0
    /\ ws' = [ws EXCEPT !.starting[s] = @ - 1,
                        !.tickers[s] = start_ticker(@, sdk)]
    /\ UNCHANGED <<gateway, environ, sessions, job>>

\* The client goes away: receive_text raises WebSocketDisconnect.
WsDisconnect(s, x) ==
    /\ x \in ws.open[s]
    /\ ws' = [ws EXCEPT !.clients[s] = remove(@, x),
                        !.open[s] = @ \ {x}]
    /\ UNCHANGED <<gateway, environ, sessions, job>>

\* The client sends a binary frame: receive_text() raises KeyError, which
\* the endpoint does not catch.  The endpoint ends and the connection with
\* it, and the socket stays in the list.
WsBinaryFrame(s, x) ==
    /\ x \in ws.open[s]
    /\ ws' = [ws EXCEPT !.open[s] = @ \ {x}]
    /\ UNCHANGED <<gateway, environ, sessions, job>>

\* The broker pushes a message on a ticker connection of stream s.
Push(s) ==
    /\ ws.tickers[s] > 0
    /\ LET r == on_message(ws.clients[s], TickerThreadLoop)
       IN  ws' = [ws EXCEPT !.push = [stream |-> s, clients |-> ws.clients[s],
                                      got |-> r.got, raised |-> r.raised]]
    /\ UNCHANGED <<gateway, environ, sessions, job>>

\* What refresh_script_master meets: _auth_headers raises without a
\* session, a non-200 answer raises, the request itself may fail.
RefreshOutcomes == {"ok", "no_session", "non_200", "network"}

\* asyncio.get_event_loop() in the calling thread: it raises RuntimeError
\* in a thread that has no loop, or returns a loop that is running or idle.
Loops == {"no_loop", "running", "idle"}

\* The body of the try block: "raise" or "return", and whether the refresh
\* failed.  With a running loop the coroutine is handed to that loop and
\* its failure stays in the future nobody reads.
refresh_attempt(loop, refresh) ==
    IF loop = "no_loop" THEN [end |-> "raise", failed |-> TRUE]
    ELSE IF loop = "running" THEN [end |-> "return", failed |-> refresh # "ok"]
    ELSE IF refresh = "ok" THEN [end |-> "return", failed |-> FALSE]
    ELSE [end |-> "raise", failed |-> TRUE]

\* (scheduled_refresh_uncaught: the body without its try/except; C22 is
\* tested against it.)
scheduled_refresh_uncaught(loop, refresh) ==
    LET a == refresh_attempt(loop, refresh)
    IN  [ran |-> TRUE, failed |-> a.failed, logged |-> FALSE, escaped |-> a.end = "raise"]
\* scheduled_refresh: except Exception prints the warning.
scheduled_refresh(loop, refresh) ==
    LET a == refresh_attempt(loop, refresh)
    IN  [ran |-> TRUE, failed |-> a.failed, logged |-> a.end = "raise", escaped |-> FALSE]

\* BackgroundScheduler runs its jobs in the threads of its own pool, which
\* have no event loop.
SchedulerThread == "no_loop"

ScheduledRefresh ==
    /\ \E refresh \in RefreshOutcomes : job' = scheduled_refresh(SchedulerThread, refresh)
    /\ UNCHANGED <<gateway, environ, sessions, ws>>

InitStream ==
    /\ Init
    /\ token_file = Absent

NextStream ==
    \/ \E s \in Streams, x \in Sockets : WsAccept(s, x)
    \/ \E s \in Streams, x \in Sockets : WsConnect(s, x)
    \/ \E s \in Streams : StartTicker(s)
    \/ \E s \in Streams, x \in Sockets : WsDisconnect(s, x)
    \/ \E s \in Streams, x \in Sockets : WsBinaryFrame(s, x)
    \/ \E s \in Streams : Push(s)
    \/ ScheduledRefresh

SpecStream == InitStream /\ [][NextStream]_vars

----------------------------------------------------------------------------
(* The gateway under every configuration the operator may have left: the   *)
(* process starts when Settings() can be built, and is then asked for its  *)
(* login, order and health routes.                                         *)

InitConfig ==
    /\ now = StartTime
    /\ TOKENS = EmptyCache
    /\ token_file = Absent
    /\ sdk = TRUE
    /\ mconnect = NoHandle
    /\ started = FALSE
    /\ storage = EmptyStorage
    /\ inflight = NoneInFlight
    /\ resp = NoResp
    /\ op = NoOp
    /\ otp_sent = FALSE
    /\ environ \in Environs
    /\ sessions = NoSessions
    /\ ws = NoStreams
    /\ job = NoJob

NextConfig ==
    \/ Lifespan
    \/ Tick
    \/ \E c \in Clients, q \in Requests({"auth_login", "place_order", "healthz"}) :
          Idle /\ SlowAPIMiddleware(c, q)
    \/ \E c \in Clients : AuthLogin(c)
    \/ \E c \in Clients : PlaceOrder(c)
    \/ \E c \in Clients : Healthz(c)

SpecConfig == InitConfig /\ [][NextConfig]_vars

----------------------------------------------------------------------------
(* Properties *)

\* The cache of the request being served is the cache before the step: a
\* request step leaves the clock alone, so is_valid(TOKENS, now) on the
\* unprimed state is what the handler saw.
Served(r) == r.route # "none"

(* C1: on every order and market-data route, a request served while the   *)
(* token cache is invalid makes no broker call, and when it carries the   *)
(* admin token and reaches the handler (the limiter has not answered 429  *)
(* and validation has not answered 422) it is answered 401.               *)
C1_SessionGate ==
    [][(resp'.route \in SessionRoutes /\ ~is_valid(TOKENS, now))
          => /\ resp'.calls = {}
             /\ (resp'.header = AdminToken /\ resp'.status \notin {422, 429})
                   => resp'.status = 401]_vars

\* A token of an earlier day is still held, and the order or market-data
\* request that carried the admin token was answered 401 without a call.
C1_Witness ==
    /\ resp.route \in SessionRoutes
    /\ resp.header = AdminToken
    /\ resp.status = 401
    /\ resp.calls = {}
    /\ TOKENS.access_token \in AccessTokens
    /\ ~is_valid(TOKENS, now)

(* C2: a request to an admin-gated route whose X-Admin-Token is absent or *)
(* differs from the configured token causes no broker call and leaves the *)
(* token cache and the token file unchanged.                              *)
C2_AdminGateFrame ==
    [][(resp'.route \in AdminRoutes /\ resp'.header # AdminToken)
          => /\ resp'.calls = {}
             /\ TOKENS' = TOKENS
             /\ token_file' = token_file]_vars

\* A wrong token was refused although the session was valid and the handle
\* was there: the handler would have called the broker.
C2_Witness ==
    /\ resp.route \in SessionRoutes
    /\ resp.header = DefaultAdminToken
    /\ resp.status = 401
    /\ is_valid(TOKENS, now)
    /\ mconnect.live

(* C3: a request to an admin-gated route that the limiter lets through is *)
(* answered 401 both when its X-Admin-Token carries a wrong value and     *)
(* when the header is missing.                                            *)
C3_BadAdminIs401 ==
    (resp.route \in AdminRoutes /\ resp.header # AdminToken /\ resp.status # 429)
        => resp.status = 401

(* C4: is_valid() is true iff access_token is non-empty and token_set_at  *)
(* falls on the current calendar day, for every well-typed cache; and a   *)
(* valid cache left untouched is invalid once the day has changed.        *)
WellTyped(c) == c.token_set_at # BadNum
OnCurrentDay(s, t) == s \in Times /\ Day(s) = Day(t)
C4_ValidIffToday ==
    /\ [](WellTyped(TOKENS)
            => (is_valid(TOKENS, now)
                  <=> /\ TOKENS.access_token \notin {NoneStr, ""}
                      /\ OnCurrentDay(TOKENS.token_set_at, now)))
    /\ [][(is_valid(TOKENS, now) /\ TOKENS' = TOKENS /\ Day(now') # Day(now))
             => ~is_valid(TOKENS', now')]_vars

\* Midnight has passed over a token that was set on the start day and that
\* is still in the cache, which is no longer valid.
C4_Witness ==
    /\ TOKENS.access_token \in AccessTokens
    /\ TOKENS.token_set_at = StartTime
    /\ Day(now) > Day(StartTime)
    /\ ~is_valid(TOKENS, now)

(* C5: after POST /auth/session succeeds with the broker returning token  *)
(* T, the cache holds access_token = T, token_set_at is the current time  *)
(* and is_valid() is true.                                                *)
C5_SessionStored ==
    (resp.route = "auth_session" /\ resp.status = 200)
        => /\ resp.ret \in AccessTokens
           /\ TOKENS.access_token = resp.ret
           /\ TOKENS.token_set_at = now
           /\ is_valid(TOKENS, now)

\* A second session exchange, on the second day, replaced the token.
C5_Witness ==
    /\ resp.route = "auth_session"
    /\ resp.status = 200
    /\ resp.ret = "tokB"
    /\ now > StartTime

(* C6: on POST /orders, GET /orders, GET /trades, POST /orders/status,    *)
(* /orders/modify, /market/ltp, /market/ohlc, /market/historical and      *)
(* /market/loser_gainer, a broker call that returns is answered 200 with  *)
(* what the broker returned, unmodified, and nothing else is answered 200.*)
PassRoutes == {"place_order", "get_orders", "get_trades", "order_status",
               "modify_order", "get_ltp", "get_ohlc", "get_historical_chart",
               "loser_gainer"}
C6_PassThrough ==
    resp.route \in PassRoutes
        => /\ (resp.ret # NoneStr) <=> (resp.status = 200)
           /\ resp.status = 200 => /\ resp.body = Passed(resp.ret)
                                   /\ resp.header = AdminToken
                                   /\ is_valid(TOKENS, now)

\* POST /orders came back 200 with the broker's success payload.
C6_Witness ==
    /\ resp.route = "place_order"
    /\ resp.status = 200
    /\ resp.calls = {"place_order"}
    /\ resp.body = Passed("success")

(* C7: for each client address, within one window the first 10 requests   *)
(* are not rate-limited and the 11th is answered 429, the count being     *)
(* kept per client address over all its requests.                         *)
RECURSIVE SumHits(_, _, _, _)
SumHits(st, c, t, P) ==
    IF P = {} THEN 0
    ELSE LET p == CHOOSE x \in P : TRUE
         IN  (IF Live(st, <<c, p>>, t) THEN st[<<c, p>>].count ELSE 0)
                 + SumHits(st, c, t, P \ {p})
\* The requests of client c counted in the windows that are open at t.
ClientHits(st, c, t) == SumHits(st, c, t, Paths)
C7_PerClientLimit ==
    Served(resp) => (resp.status = 429 <=> ClientHits(storage, resp.client, now) > RateLimit)

(* C8 as stated: GET /healthz answers 200 with ok == true in every         *)
(* reachable state, after any history of earlier requests.                *)
C8_HealthzAlways200 ==
    resp.route = "healthz" => (resp.status = 200 /\ resp.body = Message("ok", "ts"))

(* C8, amended: GET /healthz answers 200 with ok == true whenever the     *)
(* limiter lets the request through, whatever admin header is sent or     *)
(* omitted and whatever the token cache holds; the only other answer is   *)
(* the limiter's 429, given once the address has more than 10 requests to *)
(* /healthz in the open window.                                           *)
C8_HealthzUnlessLimited ==
    resp.route = "healthz"
        => IF storage[BucketOf(resp.client, "healthz")].count <= RateLimit
           THEN resp.status = 200 /\ resp.body = Message("ok", "ts") /\ resp.calls = {}
           ELSE resp.status = 429

\* /healthz answered 200 to a request without the admin header while the
\* cache held a token of an earlier day.
C8_Witness ==
    /\ resp.route = "healthz"
    /\ resp.status = 200
    /\ resp.header = NoneStr
    /\ TOKENS.access_token \in AccessTokens
    /\ ~is_valid(TOKENS, now)

(* C9: at process start, if the token file holds a token set on the       *)
(* current day, the token cache is valid after startup and the broker     *)
(* handle has been given that token, without a new login.                 *)
FileCache(f) == [access_token |-> f.access_token, token_set_at |-> f.token_set_at]
C9_StartupRestoresSession ==
    (started /\ token_file.kind = "json" /\ is_valid(FileCache(token_file), now))
        => /\ is_valid(TOKENS, now)
           /\ mconnect.live => mconnect.access_token = token_file.access_token

(* C10 as stated: after every successful session exchange the token file  *)
(* holds exactly the access_token and token_set_at of the cache.          *)
C10_FileHoldsCache ==
    (resp.route = "auth_session" /\ resp.status = 200) => token_file = dumps(TOKENS)

(* C10, amended: after a successful session exchange the token file holds *)
(* exactly the access_token and token_set_at of the cache provided the    *)
(* write succeeded; a failed write is swallowed by save(), the exchange   *)
(* still answers 200, and the file is left as it was or truncated.        *)
C10_FileHoldsCacheIfWritten ==
    [][(resp'.route = "auth_session" /\ resp'.status = 200)
          => IF resp'.fs = "ok"
             THEN /\ token_file'.kind = "json"
                  /\ token_file'.access_token = TOKENS'.access_token
                  /\ token_file'.token_set_at = TOKENS'.token_set_at
             ELSE token_file' \in {token_file, Garbage}]_vars

\* A session exchange on the second day overwrote the file of the first.
C10_Witness ==
    /\ resp.route = "auth_session"
    /\ resp.status = 200
    /\ resp.fs = "ok"
    /\ now > StartTime
    /\ token_file = JsonFile(TOKENS.access_token, now)

(* C11 as stated: save() on a cache holding a token set today, followed by *)
(* load() on the same calendar day, leaves the cache as it was before      *)
(* save(): same access_token and same token_set_at.                       *)
C11_SaveLoadRoundTrip ==
    [][(/\ op.name = "save" /\ op'.name = "load"
        /\ is_valid(TOKENS, op.at) /\ Day(now) = Day(op.at))
          => TOKENS' = TOKENS]_vars

(* C11, amended: save() on a cache holding a token set today, followed by *)
(* load() on the same calendar day, leaves the cache as it was before     *)
(* save() provided save() could write the file; a failed write is         *)
(* swallowed, and load() then takes what an older file holds.             *)
C11_SaveLoadRoundTripIfWritten ==
    [][(/\ op.name = "save" /\ op'.name = "load" /\ op.fs = "ok"
        /\ is_valid(TOKENS, op.at) /\ Day(now) = Day(op.at))
          => /\ TOKENS' = TOKENS
             /\ is_valid(TOKENS', now')]_vars

\* load() has read back, on the same day, the file that the save() before it
\* wrote.
C11_Witness ==
    /\ op.name = "load" /\ op.fs = "ok" /\ ~op.failed
    /\ op.prev = [name |-> "save", fs |-> "ok"]
    /\ TOKENS.access_token = "tokB"
    /\ is_valid(TOKENS, now)
    /\ token_file = dumps(TOKENS)

(* C12 as stated: after clear(), a load() that follows leaves the cache    *)
(* empty (both fields unset) and is_valid() false, whatever the cache and  *)
(* the file held before clear().                                           *)
C12_ClearLoadEmpty ==
    [][(op.name = "clear" /\ op'.name = "load")
          => /\ TOKENS' = EmptyCache
             /\ ~is_valid(TOKENS', now')]_vars

(* C12, amended: after a clear() that could delete the token file (or      *)
(* found none), a load() that follows leaves the cache empty and           *)
(* is_valid() false, whatever the cache and the file held before.  When    *)
(* the unlink failed, which clear() only logs, the file survives and the   *)
(* load() that follows leaves the cache                                    *)
(*   - empty, if it cannot read the file or is_valid() returns false on    *)
(*     the file's fields;                                                  *)
(*   - holding the file's fields, with is_valid() true, if they are a      *)
(*     token set today;                                                    *)
(*   - holding the file's fields, with is_valid() raising, if the file has *)
(*     a token and a token_set_at that is no number.                       *)
C12_ClearLoadEmptyIfDeleted ==
    [][(op.name = "clear" /\ op'.name = "load")
          => IF op.fs \in {"ok", "none"}
             THEN /\ token_file = Absent
                  /\ TOKENS' = EmptyCache
                  /\ ~is_valid(TOKENS', now')
                  /\ token_file' = Absent
             ELSE LET read == op'.fs = "ok" /\ token_file.kind = "json"
                      got == FileCache(token_file)
                  IN  /\ token_file # Absent
                      /\ TOKENS = EmptyCache
                      /\ IF read /\ is_valid(got, now)
                         THEN /\ TOKENS' = got
                              /\ is_valid(TOKENS', now')
                         ELSE IF read /\ is_valid_raises(got)
                         THEN /\ TOKENS' = got
                              /\ is_valid_raises(TOKENS')
                         ELSE /\ TOKENS' = EmptyCache
                              /\ ~is_valid(TOKENS', now')
                              /\ ~is_valid_raises(TOKENS')]_vars

\* clear() deleted a file that was there, and the load() after it found
\* nothing to read: the cache is empty.
C12_Witness ==
    /\ op.name = "load" /\ op.fs = "none"
    /\ op.prev = [name |-> "clear", fs |-> "ok"]
    /\ TOKENS = EmptyCache
    /\ token_file = Absent

(* C13 as stated: load() on a token file whose token is stale              *)
(* (token_set_at not on the current day, or a field missing) leaves both   *)
(* cache fields unset and deletes the file.                                *)
StaleFile(f, t) ==
    /\ f.kind = "json"
    /\ f.token_set_at # BadNum
    /\ \/ f.access_token = NoneStr
       \/ f.token_set_at = NoneNum
       \/ ~OnCurrentDay(f.token_set_at, t)
\* A step that is a call of load(): the cache methods leave the clock alone,
\* and save() and clear() record their own names.
LoadStep == now' = now /\ op'.name = "load"
C13_LoadClearsStale ==
    [][(StaleFile(token_file, now) /\ LoadStep)
          => /\ TOKENS' = EmptyCache
             /\ token_file' = Absent]_vars

(* C13, amended: load() that can read a token file whose token is stale    *)
(* leaves both cache fields unset, and deletes the file unless the unlink  *)
(* fails, which is logged and leaves the file in place; load() that cannot *)
(* read the file leaves the cache and the file as they were.               *)
C13_LoadClearsStaleIfReadable ==
    [][(StaleFile(token_file, now) /\ LoadStep)
          => IF op'.fs = "ok"
             THEN /\ TOKENS' = EmptyCache
                  /\ token_file' = IF op'.del = "ok" THEN Absent ELSE token_file
             ELSE /\ op'.failed \/ op'.fs = Denied
                  /\ TOKENS' = TOKENS
                  /\ token_file' = token_file]_vars

\* load() has emptied a cache that held a token and removed the file, which
\* held a token of an earlier day.
C13_Witness ==
    /\ op.name = "load" /\ op.fs = "ok" /\ op.del = "ok"
    /\ op.prev.name = "none"
    /\ Day(now) > Day(StartTime)
    /\ TOKENS = EmptyCache
    /\ token_file = Absent

(* C14: load() does not raise to its caller, whatever the file system     *)
(* does and whatever the file holds (save() and clear() have no raising    *)
(* outcome in the model: all they do to the file sits in a try block); and *)
(* after a load() that failed (the read, the parse or the re-validation    *)
(* raised inside it), called on a cache that was empty, the cache reports  *)
(* not logged in: is_valid() returns false and does not raise.             *)
C14_FailedLoadNotLoggedIn ==
    [][/\ LoadStep => op'.fs # Denied
       /\ (LoadStep /\ op'.failed /\ TOKENS = EmptyCache)
             => /\ ~is_valid_raises(TOKENS')
                /\ ~is_valid(TOKENS', now')]_vars

(* C15: in every state reached through session exchanges, load(), save(),  *)
(* clear() and the route handlers, if the cache's access_token is set then *)
(* its token_set_at is also set.                                           *)
C15_TokenHasStamp ==
    TOKENS.access_token # NoneStr => TOKENS.token_set_at # NoneNum

\* A session was exchanged, its file written, and load() has read the two
\* fields back into the cache.
C15_Witness ==
    /\ op.name = "load" /\ op.fs = "ok" /\ ~op.failed
    /\ op.prev = [name |-> "save", fs |-> "ok"]
    /\ mconnect.live
    /\ TOKENS.access_token \in AccessTokens
    /\ TOKENS.token_set_at = now

(* C16: when the broker rejects the login (its answer has no success       *)
(* status), or the session exchange raises or yields no access token, the  *)
(* auth route answers 401.                                                 *)
\* login() returned and its answer was refused: the detail carries the
\* handler's own text, not that of an exception login() raised.
LoginRejected(r) ==
    /\ r.route = "auth_login" /\ r.calls = {"login"} /\ r.status # 200
    /\ r.body.arg \notin Exceptions
SessionFailed(r) ==
    r.route = "auth_session" /\ r.calls = {"generate_session"} /\ r.status # 200
C16_AuthFailureIs401 ==
    (LoginRejected(resp) \/ SessionFailed(resp)) => resp.status = 401

(* C17: the body answered when a broker call raised is a fixed message:    *)
(* two runs that differ only in the content of the exception get the same  *)
(* answer, on the auth routes as on the order and market-data routes.  The *)
(* exception reaches the answer only through the detail's argument, so the *)
(* answers are the same iff that argument never holds the exception.       *)
C17_GenericErrorBody ==
    (resp.route \in AdminRoutes /\ resp.calls # {} /\ resp.status # 200)
        => /\ resp.body.kind = "detail"
           /\ resp.body.arg \notin Exceptions

(* C18: POST /auth/session populates the token cache only if a POST        *)
(* /auth/login succeeded before it: the gateway reaches SessionEstablished *)
(* only from OtpRequested.                                                 *)
C18_SessionOnlyAfterLogin ==
    (resp.route = "auth_session" /\ resp.status = 200) => otp_sent

(* C19: when the vendor SDK could not be loaded at process start, every    *)
(* route that needs the broker (auth, order and market-data routes)        *)
(* answers 500 to a request that passed the limiter, the admin gate and    *)
(* validation, in every token-cache state.                                 *)
C19_NoSdkIs500 ==
    (/\ ~sdk /\ resp.route \in AdminRoutes
     /\ resp.header = AdminToken /\ resp.status \notin {422, 429})
        => resp.status = 500

(* C20: a POST /orders or /orders/modify body whose transaction side, order *)
(* type or validity is not one of the enumerated values is rejected by     *)
(* schema validation with 422, and no broker call is made.                 *)
C20_UnlistedValueIs422 ==
    (/\ resp.route \in {"place_order", "modify_order"} /\ resp.sent = "unlisted"
     /\ resp.header = AdminToken /\ resp.status # 429)
        => /\ resp.status = 422
           /\ resp.calls = {}

(* C24: a broker call that fails on an order or market-data route leaves   *)
(* the token cache and the token file unchanged: a session is not lost     *)
(* because a broker call raised.                                           *)
C24_FailedCallKeepsSession ==
    [][(resp'.route \in SessionRoutes /\ resp'.calls # {} /\ resp'.status # 200)
          => /\ TOKENS' = TOKENS
             /\ token_file' = token_file]_vars

(* C25: on every order and market-data route, with the admin token and a   *)
(* valid session, a broker call that raises or returns a non-success       *)
(* result is answered 400 or 502, never 200, 401 or 500.                   *)
C25_UpstreamErrorStatus ==
    (/\ resp.route \in SessionRoutes /\ resp.header = AdminToken
     /\ resp.calls # {} /\ resp.ret \in {NoneStr, "failure"})
        => resp.status \in {400, 502}

(* C26: POST /orders/cancel with order_id X cancels order X only: whatever *)
(* X the caller names, the broker call made cancels no other order.        *)
C26_CancelsOnlyNamedOrder ==
    resp.route = "cancel_order"
        => \A x \in OrderIds : cancelled_by(resp.calls, x) \subseteq {x}

(* C27: the rate limiter acts before the admin gate and the handler.       *)
(* Every request is counted in the window the limiter keeps for its client *)
(* (see C7: one per path)  before anything else looks at it, whatever its  *)
(* admin token; a request over the limit is answered 429 and causes no     *)
(* broker call and no change of the token cache or its file, whatever its  *)
(* admin token and the session state; 429 is answered to no other request; *)
(* and the gate and the handler answer only a request that was counted and *)
(* let through, without touching the counters.                             *)
HitsBefore(k) == IF Live(storage, k, now) THEN storage[k].count ELSE 0
C27_LimiterFirst ==
    [][/\ \A c \in Clients :
             (inflight'[c] # inflight[c] /\ inflight'[c] # NoRequest)
                => LET k == BucketOf(c, inflight'[c].route)
                   IN  /\ storage'[k].count = HitsBefore(k) + 1
                       /\ HitsBefore(k) + 1 <= RateLimit
                       /\ TOKENS' = TOKENS
                       /\ token_file' = token_file
                       /\ resp' = NoResp
       /\ resp'.status = 429
             => LET k == BucketOf(resp'.client, resp'.route)
                IN  /\ storage'[k].count = HitsBefore(k) + 1
                    /\ HitsBefore(k) + 1 > RateLimit
                    /\ resp'.calls = {}
                    /\ TOKENS' = TOKENS
                    /\ token_file' = token_file
                    /\ inflight' = inflight
       /\ (Served(resp') /\ resp'.status # 429)
             => /\ inflight[resp'.client]
                      = Request(resp'.route, resp'.header, resp'.sent)
                /\ inflight'[resp'.client] = NoRequest
                /\ storage' = storage]_vars

\* The eleventh request of a window carried the admin token while the
\* session was valid and the handle was there: its handler would have called
\* the broker, and the limiter answered instead.
C27_Witness ==
    /\ resp.route \in SessionRoutes
    /\ resp.status = 429
    /\ resp.header = AdminToken
    /\ storage[BucketOf(resp.client, resp.route)].count = RateLimit + 1
    /\ is_valid(TOKENS, now)
    /\ mconnect.live

(* C28: the token cache and its file are populated only by a successful    *)
(* session exchange.  POST /auth/login, answered 200 or not, and a POST    *)
(* /auth/session that is not answered 200 leave access_token, token_set_at *)
(* and the token file unchanged; and a request that puts a token into the  *)
(* cache or writes the file is a POST /auth/session answered 200.          *)
C28_OnlySessionPopulates ==
    [][/\ (\/ resp'.route = "auth_login"
           \/ (resp'.route = "auth_session" /\ resp'.status # 200))
             => /\ TOKENS' = TOKENS
                /\ token_file' = token_file
       /\ (\/ (TOKENS' # TOKENS /\ TOKENS'.access_token # NoneStr)
           \/ (token_file' # token_file /\ token_file' # Absent))
             => /\ resp'.route = "auth_session"
                /\ resp'.status = 200]_vars

\* The broker has sent the OTP and POST /auth/login was answered 200, and
\* the cache is still empty and there is still no token file.
C28_Witness ==
    /\ resp.route = "auth_login"
    /\ resp.status = 200
    /\ resp.calls = {"login"}
    /\ TOKENS = EmptyCache
    /\ token_file = Absent

(* C23: the admin token is required configuration: the gate of a running   *)
(* process accepts no token value but the one the operator configured; the *)
(* API key and secret are required as well (the user name and the password *)
(* may be absent).                                                         *)
C23_AdminTokenRequired ==
    started
        => /\ environ.M_API_KEY # NoneStr
           /\ environ.M_API_SECRET # NoneStr
           /\ \A h \in Headers \ {NoneStr} :
                  require_admin(h) = 0 => h = environ.APP_ADMIN_TOKEN

(* C29 as stated: when POST /auth/session requests are handled             *)
(* concurrently their cache updates do not interleave: the cache always    *)
(* holds the access_token and token_set_at of one request, and once all    *)
(* have completed the cache and the token file hold what the last          *)
(* successful one wrote.                                                   *)
Stored(w) == [access_token |-> w.token, token_set_at |-> w.at]
Writers == {i \in 1..Len(sessions.done) : sessions.done[i].status = 200}
LastWriter == CHOOSE i \in Writers : \A j \in Writers : j <= i
C29_LastWriterWins ==
    /\ TOKENS.access_token # NoneStr
          => \E i \in Writers : TOKENS = Stored(sessions.done[i])
    /\ Writers # {}
          => /\ TOKENS = Stored(sessions.done[LastWriter])
             /\ token_file = dumps(Stored(sessions.done[LastWriter]))

(* C29, amended: the same, the token file holding what the last successful *)
(* request wrote provided that request could write it; a failed write is   *)
(* swallowed by save() and leaves the file as it was before the write, or *)
(* truncated.                                                              *)
C29_LastWriterWinsIfWritten ==
    /\ TOKENS.access_token # NoneStr
          => \E i \in Writers : TOKENS = Stored(sessions.done[i])
    /\ Writers # {}
          => /\ TOKENS = Stored(sessions.done[LastWriter])
             /\ sessions.done[LastWriter].fs = "ok"
                   => token_file = dumps(Stored(sessions.done[LastWriter]))

\* Two exchanges were in flight together; each got its own token, the
\* second handler ran a tick after the first, and the cache and the file
\* hold the token and the timestamp of the second.
C29_Witness ==
    /\ InFlight = {}
    /\ Len(sessions.done) = 2
    /\ sessions.done[1].overlap
    /\ sessions.done[1].status = 200 /\ sessions.done[2].status = 200
    /\ sessions.done[1].token # sessions.done[2].token
    /\ sessions.done[1].at < sessions.done[2].at
    /\ TOKENS = Stored(sessions.done[2])
    /\ token_file = dumps(TOKENS)

(* C21: on each stream the client list holds exactly the sockets that are  *)
(* connected, each once, and a message the broker pushes reaches every     *)
(* client registered at that moment and no other.                          *)
C21_RelayToRegistered ==
    /\ \A s \in Streams :
          /\ Registered(ws.clients[s]) = ws.open[s]
          /\ Len(ws.clients[s]) = Cardinality(ws.open[s])
    /\ ws.push.stream # "none" => ws.push.got = Registered(ws.push.clients)

(* C30: whatever the sequence of connects and disconnects, a stream has at *)
(* most one ticker connection to the broker.                               *)
C30_OneTickerPerStream == \A s \in Streams : ws.tickers[s] <= 1

(* C22: a run of the scheduled refresh that fails logs the failure and     *)
(* lets no exception out of the job, and it leaves the state the request   *)
(* handlers work on as it was.                                             *)
C22_RefreshFailureContained ==
    /\ [](job.ran => (~job.escaped /\ (job.failed => job.logged)))
    /\ [][job' # job => gateway' = gateway]_vars

\* The job has run, failed, and printed its warning.
C22_Witness == job.ran /\ job.failed /\ job.logged /\ ~job.escaped

====
